---- MODULE Spec2Model ----
(***************************************************************************)
(* Model of the sitemap product scraper: the polite fetcher                *)
(* (product_scraper/http.py), the two site processors                      *)
(* (parlant_agent/sitemap_agent.py: SitemapExtractionAgent, and            *)
(* product_scraper/scraper.py: ProductSitemapCrawler), the sitemap         *)
(* classifiers and the product-URL -> JSON endpoint resolvers.             *)
(*                                                                         *)
(* Strings that the code inspects (URLs) are modelled as token sequences:  *)
(* a path is the sequence of its "/" separators and name chunks, so that   *)
(* rstrip("/"), split("/"), endswith(".json") and substring searches are   *)
(* computed, not assumed.  Optional values are <<>> (None) or <<v>>.       *)
(***************************************************************************)
EXTENDS Integers, Sequences, FiniteSets, TLC

VARIABLES
    cfg,            \* CrawlerConfig / ProductScraperConfig / max_products, and which processor runs
    sites,          \* the SiteEntry list of run(): each entry is its seed sitemap list
    results,        \* run(): results
    pc,             \* position of run()/_process_site
    queue,          \* _process_site: queue
    visited,        \* _process_site: visited
    product_set,    \* agent _process_site: product_set
    seen,           \* agent: product_urls_seen; crawler: seen_products
    product_urls,   \* crawler _process_site: the local list product_urls
    result,         \* _process_site: the SiteResult under construction
    idx,            \* position of the product loop in the list it iterates
    world,          \* the network: URL -> what the server answers (fixed once observed)
    calls,          \* fetcher.get calls of the current site, in call order
    get,            \* SitemapFetcher.get: the frame of one call
    rurl,           \* the resolvers on their own: the product URL given
    rout            \* the resolvers on their own: what each returned

vars == <<cfg, sites, results, pc, queue, visited, product_set, seen, product_urls,
          result, idx, world, calls, get, rurl, rout>>

siteVars == <<sites, results, pc, queue, visited, product_set, seen, product_urls,
              result, idx, world, calls>>

-----------------------------------------------------------------------------
(* Bounds of the model *)

MaxRetries == 3

MaxSegs == 4

MaxSites == 2

MaxSeeds == 2

MaxLocs == 2

MaxCap == 1

-----------------------------------------------------------------------------
(* Generic helpers *)

None == <<>>

Some(x) == <<x>>

Range(s) == {s[i] : i \in 1..Len(s)}

SeqsUpTo(S, n) == UNION {[1..k -> S] : k \in 0..n}

NoDup(s) == \A i, j \in 1..Len(s) : s[i] = s[j] => i = j

RECURSIVE Pow(_, _)
Pow(b, n) == IF n = 0 THEN 1 ELSE b * Pow(b, n - 1)

-----------------------------------------------------------------------------
(* URLs as the parts urlsplit/urlparse give: scheme, netloc, path, query,   *)
(* fragment; path, query and fragment are token sequences.                  *)

MkURL(s, n, p, q) == [scheme |-> s, netloc |-> n, path |-> p, query |-> q, fragment |-> <<>>]

EmptyURL == MkURL("", "", <<>>, <<>>)

\* `not url` for a str
IsEmptyStr(u) == u = EmptyURL

Host == "shop.example"

\* a netloc with an unmatched bracket
BadHost == "[shop.example"

\* urlparse(url) / urlsplit(url) raises ValueError
Unparsable(u) == u.netloc = BadHost

\* The tokens of the whole URL string, in order.
URLTokens(u) ==
    (IF u.scheme = "" THEN <<>> ELSE <<u.scheme, ":">>)
    \o (IF u.netloc = "" THEN <<>> ELSE <<"//", u.netloc>>)
    \o u.path
    \o (IF u.query = <<>> THEN <<>> ELSE <<"?">> \o u.query)
    \o (IF u.fragment = <<>> THEN <<>> ELSE <<"#">> \o u.fragment)

\* The tokens in which the text "product" occurs, in any letter case.
ProductTokens ==
    {"products", "Products", "sitemap_products_1.xml", "sitemap_products_2.xml",
     "sitemap_products_3.xml", "product-feed"}

\* PRODUCT_HINT_RE.search(url)
ProductHint(u) == \E i \in 1..Len(URLTokens(u)) : URLTokens(u)[i] \in ProductTokens

\* "/products/" in loc
HasProductsPath(u) ==
    LET t == URLTokens(u)
    IN  \E i \in 1..Len(t) :
            /\ i + 2 <= Len(t)
            /\ t[i] = "/" /\ t[i + 1] = "products" /\ t[i + 2] = "/"

\* str.rstrip("/")
RECURSIVE RStripSlash(_)
RStripSlash(p) ==
    IF p # <<>> /\ p[Len(p)] = "/" THEN RStripSlash(SubSeq(p, 1, Len(p) - 1)) ELSE p

\* [segment for segment in path.split("/") if segment]: each segment is the
\* sequence of the tokens between two separators.
RECURSIVE SplitSegments(_, _)
SplitSegments(p, cur) ==
    IF p = <<>> THEN (IF cur = <<>> THEN <<>> ELSE <<cur>>)
    ELSE IF Head(p) = "/"
         THEN (IF cur = <<>> THEN <<>> ELSE <<cur>>) \o SplitSegments(Tail(p), <<>>)
         ELSE SplitSegments(Tail(p), Append(cur, Head(p)))

Segments(p) == SplitSegments(p, <<>>)

\* "/".join(tail)
RECURSIVE JoinSegments(_)
JoinSegments(segs) ==
    IF segs = <<>> THEN <<>>
    ELSE IF Len(segs) = 1 THEN segs[1]
    ELSE segs[1] \o <<"/">> \o JoinSegments(Tail(segs))

\* segments.index("products"), 0 when absent
FirstIndex(segs, x) ==
    IF \E i \in 1..Len(segs) : segs[i] = x
    THEN CHOOSE i \in 1..Len(segs) : segs[i] = x /\ \A j \in 1..(i - 1) : segs[j] # x
    ELSE 0

\* urlunsplit/urlunparse put a "/" before a path that follows a netloc
UnsplitPath(netloc, p) ==
    IF netloc # "" /\ p # <<>> /\ Head(p) # "/" THEN <<"/">> \o p ELSE p

\* ProductScraperConfig.product_json_extension
JsonExtension == ".json"

\* the handle taken to be the last segment alone (segments[-1] for the tail)
BuildProductJsonUrlLastSegment(u) ==
    LET path == RStripSlash(u.path)
        segments == Segments(path)
        first_product_index == FirstIndex(segments, <<"products">>)
        tail == SubSeq(segments, first_product_index + 1, Len(segments))
        json_path == <<"/", "products", "/">> \o tail[Len(tail)] \o <<JsonExtension>>
        scheme == IF u.scheme = "" THEN "https" ELSE u.scheme
    IN  IF u.netloc = "" THEN None
        ELSE IF path = <<>> THEN None
        ELSE IF first_product_index = 0 THEN None
        ELSE IF tail = <<>> THEN None
        ELSE Some(MkURL(scheme, u.netloc, json_path, <<>>))

\* SitemapExtractionAgent._build_product_json_url
BuildProductJsonUrl(u) ==
    LET path == RStripSlash(u.path)
        segments == Segments(path)
        first_product_index == FirstIndex(segments, <<"products">>)
        tail == SubSeq(segments, first_product_index + 1, Len(segments))
        json_path == <<"/", "products", "/">> \o JoinSegments(tail) \o <<JsonExtension>>
        scheme == IF u.scheme = "" THEN "https" ELSE u.scheme
    IN  IF u.netloc = "" THEN None
        ELSE IF path = <<>> THEN None
        ELSE IF first_product_index = 0 THEN None
        ELSE IF tail = <<>> THEN None
        ELSE Some(MkURL(scheme, u.netloc, json_path, <<>>))

\* ProductSitemapCrawler._to_json_url
ToJsonUrl(u) ==
    LET stripped == RStripSlash(u.path)
        path == IF stripped # <<>> /\ stripped[Len(stripped)] = ".json"
                THEN stripped ELSE Append(stripped, ".json")
    IN  [u EXCEPT !.path = UnsplitPath(u.netloc, path)]

\* ProductSitemapCrawler._iterate_products: the URLs it skips
EmptyPath(u) == u.path = <<>> \/ u.path = <<"/">>

-----------------------------------------------------------------------------
(* product_scraper/http.py: FetchResult and SitemapFetcher.get              *)

\* CrawlerConfig defaults
DefaultMaxRetries == 3

DefaultBackoff == 2

DefaultDelay == 1

Config(processor, max_retries, backoff, max_products) ==
    [processor |-> processor, max_retries |-> max_retries, retry_backoff |-> backoff,
     delay_between_requests |-> DefaultDelay, max_products |-> max_products]

\* What one attempt of session.get can end in: a 2xx response, a 429 response,
\* another 4xx/5xx status (raise_for_status raises), a network-level exception.
Outcomes == {"ok", "r429", "http_error", "net_error"}

FetchResult(url, response, error) == [url |-> url, response |-> response, error |-> error]

\* FetchResult.ok
FetchOk(r) == r.response # None /\ r.error = None

GetEvent == [ev |-> "GET", why |-> "request", secs |-> 0]

SleepEvent(why, secs) == [ev |-> "sleep", why |-> why, secs |-> secs]

\* get(): the frame at entry (attempts = 0, last_error = None)
GetEntry(url) ==
    [url |-> url, attempts |-> 0, last_error |-> None, events |-> <<>>, returned |-> None]

\* the exponent taken after `attempts += 1`
RetrySleepLate(c, attempts) == SleepEvent("retry", Pow(c.retry_backoff, attempts + 1))

\* the sleeps of get(): before a retry, after a 429, after a 2xx
RetrySleep(c, attempts) == SleepEvent("retry", Pow(c.retry_backoff, attempts))

ThrottleSleep(c, attempts) == SleepEvent("r429", Pow(c.retry_backoff, attempts))

PoliteSleep(c) == SleepEvent("polite", c.delay_between_requests)

\* str(exc) kept as last_error
LastError(fr, outcome) == Some(outcome)

\* the loop condition off by one: one attempt too many
GetLoopsOffByOne(c, fr) == fr.returned = None /\ fr.attempts <= c.max_retries

\* get(): the loop condition
GetLoops(c, fr) == fr.returned = None /\ fr.attempts < c.max_retries

\* get(): one iteration of the while loop, the attempt ending in `outcome`
GetStep(c, fr, outcome, body) ==
    LET before == IF fr.attempts # 0 THEN <<RetrySleep(c, fr.attempts)>> ELSE <<>>
        attempts == fr.attempts + 1
        requested == fr.events \o before \o <<GetEvent>>
    IN  CASE outcome = "r429" ->
               [fr EXCEPT !.attempts = attempts,
                          !.events = Append(requested, ThrottleSleep(c, attempts))]
          [] outcome = "ok" ->
               [fr EXCEPT !.attempts = attempts,
                          !.events = Append(requested, PoliteSleep(c)),
                          !.returned = Some(FetchResult(fr.url, Some(body), None))]
          [] OTHER ->
               [fr EXCEPT !.attempts = attempts,
                          !.events = requested,
                          !.last_error = LastError(fr, outcome)]

\* get(): the return after the loop
GetExhausted(c, fr) ==
    [fr EXCEPT !.returned = Some(FetchResult(fr.url, None, fr.last_error))]

\* get() run to its return, attempt i ending in outs[i]
RECURSIVE RunGet(_, _, _, _)
RunGet(c, fr, outs, body) ==
    IF fr.returned # None THEN fr
    ELSE IF GetLoops(c, fr)
         THEN RunGet(c, GetStep(c, fr, outs[fr.attempts + 1], body), outs, body)
         ELSE GetExhausted(c, fr)

Get(c, url, outs, body) == RunGet(c, GetEntry(url), outs, body).returned[1]

NumGets(fr) == Cardinality({i \in 1..Len(fr.events) : fr.events[i].ev = "GET"})

-----------------------------------------------------------------------------
(* Response bodies: what the XML parser finds in them (root element and the  *)
(* stripped, non-empty <loc> texts in document order) and what               *)
(* response.json() makes of them.                                            *)

Body(root, locs, json) == [root |-> root, locs |-> locs, json |-> json]

PlainBody == Body("other", <<>>, "invalid")

\* the value response.json() returns; the JSON text null decodes to None
JsonData(body) == IF body.json = "null" THEN None ELSE Some(body.json)

-----------------------------------------------------------------------------
(* The sitemap classifiers                                                   *)

\* the source of a urlset returned whenever its URL matches the hint (the
\* fallback without `not product_urls`)
ParseSitemapDocumentSourceKept(url, body) ==
    IF body.root = "sitemapindex"
    THEN [product_sitemaps |-> SelectSeq(body.locs, ProductHint), product_urls |-> <<>>]
    ELSE IF body.root = "urlset"
    THEN LET found == SelectSeq(body.locs, HasProductsPath)
         IN  [product_sitemaps |-> IF ProductHint(url) THEN <<url>> ELSE <<>>,
              product_urls |-> found]
    ELSE [product_sitemaps |-> <<>>, product_urls |-> <<>>]

\* every child of an index returned, whether or not it matches the hint
ParseSitemapDocumentAllChildren(url, body) ==
    IF body.root = "sitemapindex"
    THEN [product_sitemaps |-> body.locs, product_urls |-> <<>>]
    ELSE IF body.root = "urlset"
    THEN LET found == SelectSeq(body.locs, HasProductsPath)
         IN  [product_sitemaps |-> IF found = <<>> /\ ProductHint(url) THEN <<url>> ELSE <<>>,
              product_urls |-> found]
    ELSE [product_sitemaps |-> <<>>, product_urls |-> <<>>]

\* any root that is not a sitemapindex read as a urlset
ParseSitemapDocumentAnyRoot(url, body) ==
    IF body.root = "sitemapindex"
    THEN [product_sitemaps |-> SelectSeq(body.locs, ProductHint), product_urls |-> <<>>]
    ELSE LET found == SelectSeq(body.locs, HasProductsPath)
         IN  [product_sitemaps |-> IF found = <<>> /\ ProductHint(url) THEN <<url>> ELSE <<>>,
              product_urls |-> found]

\* SitemapExtractionAgent._parse_sitemap_document: (product_sitemaps, product_urls)
ParseSitemapDocument(url, body) ==
    IF body.root = "sitemapindex"
    THEN [product_sitemaps |-> SelectSeq(body.locs, ProductHint), product_urls |-> <<>>]
    ELSE IF body.root = "urlset"
    THEN LET found == SelectSeq(body.locs, HasProductsPath)
         IN  [product_sitemaps |-> IF found = <<>> /\ ProductHint(url) THEN <<url>> ELSE <<>>,
              product_urls |-> found]
    ELSE [product_sitemaps |-> <<>>, product_urls |-> <<>>]

\* the page locations of a urlset also returned as sitemaps to explore
parse_sitemap_documentPagesDiscovered(url, body) ==
    IF body.root = "sitemapindex"
    THEN [product_urls |-> <<>>, discovered |-> body.locs]
    ELSE IF body.root = "urlset"
    THEN [product_urls |-> body.locs, discovered |-> body.locs]
    ELSE [product_urls |-> <<>>, discovered |-> <<>>]

\* product_scraper.sitemap.parse_sitemap_document: (product_urls, discovered_sitemaps)
parse_sitemap_document(url, body) ==
    IF body.root = "sitemapindex"
    THEN [product_urls |-> <<>>, discovered |-> body.locs]
    ELSE IF body.root = "urlset"
    THEN [product_urls |-> body.locs, discovered |-> <<>>]
    ELSE [product_urls |-> <<>>, discovered |-> <<>>]

-----------------------------------------------------------------------------
(* Results and messages                                                      *)

\* an error string: its fixed text, the URL formatted into it, the reason formatted into it
Msg(text, url, detail) == [text |-> text, url |-> url, detail |-> detail]

\* f"{fetch_result.error}"
ErrorText(error) == IF error = None THEN "None" ELSE error[1]

\* fetch_result.error or 'unknown error'
ErrorOrUnknown(error) == IF error = None THEN "unknown error" ELSE error[1]

\* SitemapExtractionResult / SiteScrapeResult: the list fields, and the row of
\* the site in the workbook for its brand
NewResult(brand, product_sitemaps) ==
    [brand |-> brand, product_sitemaps |-> product_sitemaps, sitemap_history |-> <<>>,
     product_urls |-> <<>>, products |-> <<>>, errors |-> <<>>]

ProductRecord(product_url, json_url, data, error) ==
    [product_url |-> product_url, json_url |-> json_url, data |-> data, error |-> error]

\* the dequeued URL never marked
MarkVisitedForgotten(v, current) == v

\* visited.add(current)
MarkVisited(v, current) == v \cup {current}

\* `if not current or current in visited: continue`
SkipCurrent(current, v) == IsEmptyStr(current) \/ current \in v

\* the queue not consulted before appending
EnqueueUnlessVisited(q, v, url) == IF url \notin v THEN Append(q, url) ELSE q

\* a new URL put at the head of the queue (depth first)
EnqueueFront(q, v, url) == IF url \notin v /\ url \notin Range(q) THEN <<url>> \o q ELSE q

\* `if url not in visited and url not in queue: queue.append(url)`
Enqueue(q, v, url) == IF url \notin v /\ url \notin Range(q) THEN Append(q, url) ELSE q

\* each new url put in front of the list (insert(0, url) for append(url))
RECURSIVE AppendUnseenFront(_, _)
AppendUnseenFront(st, urls) ==
    IF urls = <<>> THEN st
    ELSE LET url == Head(urls)
         IN  AppendUnseenFront(IF url \notin st.seen
                               THEN [seen |-> st.seen \cup {url}, list |-> <<url>> \o st.list]
                               ELSE st,
                               Tail(urls))

\* `if url not in seen: seen.add(url); lst.append(url)`, for each url of urls
RECURSIVE AppendUnseen(_, _)
AppendUnseen(st, urls) ==
    IF urls = <<>> THEN st
    ELSE LET url == Head(urls)
         IN  AppendUnseen(IF url \notin st.seen
                          THEN [seen |-> st.seen \cup {url}, list |-> Append(st.list, url)]
                          ELSE st,
                          Tail(urls))

RECURSIVE EnqueueAll(_, _, _)
EnqueueAll(q, v, urls) ==
    IF urls = <<>> THEN q ELSE EnqueueAll(Enqueue(q, v, Head(urls)), v, Tail(urls))

\* the seeds queued without being recorded as product sitemaps
RECURSIVE AgentSeedQueueOnly(_, _)
AgentSeedQueueOnly(st, seeds) ==
    IF seeds = <<>> THEN st
    ELSE LET s == Head(seeds)
             queued == IF s \notin Range(st.queue)
                       THEN [st EXCEPT !.queue = Append(@, s)]
                       ELSE st
         IN  AgentSeedQueueOnly(IF IsEmptyStr(s) THEN st ELSE queued, Tail(seeds))

\* agent _process_site, the loop over site.product_sitemap_urls
RECURSIVE AgentSeed(_, _)
AgentSeed(st, seeds) ==
    IF seeds = <<>> THEN st
    ELSE LET s == Head(seeds)
             kept == IF s \notin st.seen
                     THEN [st EXCEPT !.seen = @ \cup {s}, !.list = Append(@, s)]
                     ELSE st
             queued == IF s \notin Range(kept.queue)
                       THEN [kept EXCEPT !.queue = Append(@, s)]
                       ELSE kept
         IN  AgentSeed(IF IsEmptyStr(s) THEN st ELSE queued, Tail(seeds))

-----------------------------------------------------------------------------
(* The sites, documents and answers of the runs                              *)

\* https://shop.example/sitemap.xml
U1 == MkURL("https", Host, <<"/", "sitemap.xml">>, <<>>)

\* https://shop.example/sitemap_products_1.xml
U2 == MkURL("https", Host, <<"/", "sitemap_products_1.xml">>, <<>>)

\* https://shop.example/products/a
U3 == MkURL("https", Host, <<"/", "products", "/", "a">>, <<>>)

\* https://shop.example/?ref=/products/a
U4 == MkURL("https", Host, <<"/">>, <<"ref=", "/", "products", "/", "a">>)

\* https://shop.example/products/b
U5 == MkURL("https", Host, <<"/", "products", "/", "b">>, <<>>)

SeedURLs == {EmptyURL, U1, U2}

IndexLocs == {U1, U2}

\* https://[shop.example/products/a: urlparse and urlsplit raise ValueError
\* ("Invalid IPv6 URL") on it; the record holds the tokens of the string
U6 == MkURL("https", BadHost, <<"/", "products", "/", "a">>, <<>>)

PageLocs == {U3, U4, U5, U6}

SeedLists == SeqsUpTo(SeedURLs, MaxSeeds)

\* run() is given one site, up to MaxSites times over
SiteLists == {[i \in 1..k |-> s] : k \in 0..MaxSites, s \in SeedLists}

\* a document with <loc> elements under a root that is neither sitemapindex
\* nor urlset (a feed, say)
StrayBody == Body("other", <<U2, U3>>, "invalid")

SitemapBodies ==
    {Body("sitemapindex", l, "invalid") : l \in SeqsUpTo(IndexLocs, MaxLocs)}
    \cup {Body("urlset", l, "invalid") : l \in SeqsUpTo(PageLocs, MaxLocs)}
    \cup {PlainBody, StrayBody}

JsonBodies == {Body("other", <<>>, j) : j \in {"object", "null", "invalid"}}

\* every attempt of a get() call for the URL ends the same way
Always(c, outcome) == [i \in 1..c.max_retries |-> outcome]

Answer(outs, body) == [outs |-> outs, body |-> body]

Failures(c) == {Answer(Always(c, o), PlainBody) : o \in {"http_error", "r429"}}

SitemapAnswers(c) == {Answer(Always(c, "ok"), b) : b \in SitemapBodies} \cup Failures(c)

JsonAnswers(c) ==
    {Answer(Always(c, "ok"), b) : b \in JsonBodies} \cup {Answer(Always(c, "http_error"), PlainBody)}

\* the server's answer for a URL is fixed once it has been observed
Answers(url, fresh) == IF url \in DOMAIN world THEN {world[url]} ELSE fresh

Observe(url, r) == IF url \in DOMAIN world THEN world ELSE (url :> r) @@ world

Call(url, phase) == [url |-> url, phase |-> phase]

Caps == {None} \cup {Some(n) : n \in 0..MaxCap}

Configs ==
    {Config("agent", DefaultMaxRetries, DefaultBackoff, None)}
    \cup {Config("crawler", DefaultMaxRetries, DefaultBackoff, cap) : cap \in Caps}

IdleGet == GetEntry(EmptyURL)

IdleResolve == [agent |-> None, crawler |-> None]

-----------------------------------------------------------------------------
(* run() and _process_site                                                   *)

Init ==
    /\ cfg \in Configs
    /\ sites \in SiteLists
    /\ results = <<>>
    /\ pc = "run"
    /\ queue = <<>>
    /\ visited = {}
    /\ product_set = {}
    /\ seen = {}
    /\ product_urls = <<>>
    /\ result = NewResult(0, <<>>)
    /\ idx = 0
    /\ world = <<>>
    /\ calls = <<>>
    /\ get = IdleGet
    /\ rurl = EmptyURL
    /\ rout = IdleResolve

NoSitemapsAgent == Msg("No product sitemap URLs supplied for this store", EmptyURL, "")

NoSitemapsCrawler == Msg("No product sitemaps provided in the Excel row.", EmptyURL, "")

\* the visited set kept from one _process_site call to the next
StaleVisited == visited

\* `visited: Set[str] = set()` at the start of _process_site
NewVisited == {}

\* the set of product URLs already seen, kept from one _process_site call to the next
StaleSeen == seen

\* `product_urls_seen: Set[str] = set()` / `seen_products: Set[str] = set()`
NewSeen == {}

\* the message of an empty seed list never recorded
EmptySeedErrorsDropped(q, message) == <<>>

\* `if not queue: result.errors.append(message)`
EmptySeedErrors(q, message) == IF q = <<>> THEN <<message>> ELSE <<>>

\* a failed fetch ending the traversal (`break` for `continue`)
QueueAfterFailureBreak(rest) == <<>>

\* a failed fetch ends in `continue`: the rest of the queue is still processed
QueueAfterFailure(rest) == rest

\* the head read without being removed (queue[0] for queue.pop(0))
PopRestPeek(q) == q

\* queue.pop(0): what stays in the queue
PopRest(q) == Tail(q)

\* the while loop left after one iteration, whatever is still queued
AfterLoopEarly(q, next) == next

\* where _process_site goes when the while loop's condition is tested
AfterLoop(q, next) == IF q = <<>> THEN next ELSE "traverse"

\* agent _process_site up to the while loop
AgentBegin ==
    /\ pc = "run" /\ cfg.processor = "agent" /\ Len(results) < Len(sites)
    /\ LET site == sites[Len(results) + 1]
           st == AgentSeed([seen |-> {}, list |-> <<>>, queue |-> <<>>], site)
       IN  /\ queue' = st.queue
           /\ product_set' = st.seen
           /\ result' = [NewResult(Len(results) + 1, st.list) EXCEPT
                              !.errors = EmptySeedErrors(st.queue, NoSitemapsAgent)]
           /\ pc' = IF st.queue = <<>> THEN "return" ELSE "traverse"
    /\ visited' = NewVisited /\ seen' = NewSeen /\ product_urls' = <<>> /\ idx' = 0 /\ calls' = <<>>
    /\ UNCHANGED <<cfg, sites, results, world, get, rurl, rout>>

\* agent _process_site: one iteration of `while queue`, the servers answering
\* a URL not yet observed with one of `answers`
AgentLoopOn(answers) ==
    /\ pc = "traverse" /\ cfg.processor = "agent" /\ queue # <<>>
    /\ LET current == Head(queue)
           rest == PopRest(queue)
       IN  IF SkipCurrent(current, visited)
           THEN /\ queue' = rest
                /\ pc' = AfterLoop(rest, "products")
                /\ UNCHANGED <<visited, product_set, seen, result, world, calls>>
           ELSE \E r \in Answers(current, answers) :
                  LET fetch_result == Get(cfg, current, r.outs, r.body)
                      v == MarkVisited(visited, current)
                      parsed == ParseSitemapDocument(current, fetch_result.response[1])
                      ps == AppendUnseen([seen |-> product_set, list |-> result.product_sitemaps],
                                         parsed.product_sitemaps)
                      pu == AppendUnseen([seen |-> seen, list |-> result.product_urls],
                                         parsed.product_urls)
                      q == EnqueueAll(rest, v, parsed.product_sitemaps)
                  IN  /\ visited' = v
                      /\ world' = Observe(current, r)
                      /\ calls' = Append(calls, Call(current, "sitemap"))
                      /\ IF ~FetchOk(fetch_result)
                         THEN /\ result' = [result EXCEPT !.errors =
                                   Append(@, Msg("Failed to fetch", current,
                                                 ErrorText(fetch_result.error)))]
                              /\ queue' = QueueAfterFailure(rest)
                              /\ pc' = AfterLoop(QueueAfterFailure(rest), "products")
                              /\ UNCHANGED <<product_set, seen>>
                         ELSE /\ result' = [result EXCEPT !.product_sitemaps = ps.list,
                                                          !.product_urls = pu.list]
                              /\ product_set' = ps.seen
                              /\ seen' = pu.seen
                              /\ queue' = q
                              /\ pc' = AfterLoop(q, "products")
    /\ UNCHANGED <<cfg, sites, results, product_urls, idx, get, rurl, rout>>

AgentLoop == AgentLoopOn(SitemapAnswers(cfg))

\* SitemapExtractionAgent._fetch_product_payload, the endpoint answering r
FetchProductPayload(c, product_url, r) ==
    LET json_url == BuildProductJsonUrl(product_url)
        fetch_result == Get(c, json_url[1], r.outs, r.body)
    IN  IF json_url = None
        THEN ProductRecord(product_url, None, None,
                 Some(Msg("Unable to derive Shopify JSON endpoint for", product_url, "")))
        ELSE IF ~FetchOk(fetch_result)
        THEN ProductRecord(product_url, json_url, None,
                 Some(Msg("Failed to fetch", json_url[1], ErrorOrUnknown(fetch_result.error))))
        ELSE IF fetch_result.response[1].json = "invalid"
        THEN ProductRecord(product_url, json_url, None,
                 Some(Msg("Failed to decode JSON for", json_url[1], "ValueError")))
        ELSE ProductRecord(product_url, json_url, JsonData(fetch_result.response[1]), None)

\* the record's error put in front of the site's errors
RecordErrorFirst(errors, record) ==
    IF record.error # None THEN <<record.error[1]>> \o errors ELSE errors

\* `if record.error: result.errors.append(record.error)`
RecordError(errors, record) ==
    IF record.error # None THEN Append(errors, record.error[1]) ELSE errors

\* agent _process_site: one iteration of `for product_url in result.product_urls`
AgentProduct ==
    /\ pc = "products" /\ cfg.processor = "agent" /\ idx < Len(result.product_urls)
    /\ ~Unparsable(result.product_urls[idx + 1])
    /\ LET product_url == result.product_urls[idx + 1]
           json_url == BuildProductJsonUrl(product_url)
       IN  IF json_url = None
           THEN LET record == FetchProductPayload(cfg, product_url, Answer(<<>>, PlainBody))
                IN  /\ result' = [result EXCEPT !.errors = RecordError(@, record),
                                                 !.products = Append(@, record)]
                    /\ UNCHANGED <<world, calls>>
           ELSE \E r \in Answers(json_url[1], JsonAnswers(cfg)) :
                  LET record == FetchProductPayload(cfg, product_url, r)
                  IN  /\ result' = [result EXCEPT
                             !.errors = RecordError(@, record),
                             !.products = Append(@, record)]
                      /\ world' = Observe(json_url[1], r)
                      /\ calls' = Append(calls, Call(json_url[1], "product"))
    /\ idx' = idx + 1
    /\ UNCHANGED <<cfg, sites, results, pc, queue, visited, product_set, seen,
                   product_urls, get, rurl, rout>>

\* crawler _process_site up to the while loop
CrawlerBegin ==
    /\ pc = "run" /\ cfg.processor = "crawler" /\ Len(results) < Len(sites)
    /\ LET site == sites[Len(results) + 1]
       IN  /\ queue' = site
           /\ result' = [NewResult(Len(results) + 1, site) EXCEPT
                              !.errors = EmptySeedErrors(site, NoSitemapsCrawler)]
           /\ pc' = AfterLoop(site, "collect")
    /\ visited' = NewVisited /\ seen' = NewSeen /\ product_urls' = <<>> /\ idx' = 0 /\ calls' = <<>>
    /\ UNCHANGED <<cfg, sites, results, product_set, world, get, rurl, rout>>

\* sitemap_history kept only for the fetches that succeeded
HistoryAfterFailureDropped(history, current) == history

\* `result.sitemap_history.append(current)` before the outcome of the fetch is tested
HistoryAfterFailure(history, current) == Append(history, current)

\* crawler _process_site: one iteration of `while queue`, the servers
\* answering a URL not yet observed with one of `answers`
CrawlerLoopOn(answers) ==
    /\ pc = "traverse" /\ cfg.processor = "crawler" /\ queue # <<>>
    /\ LET current == Head(queue)
           rest == PopRest(queue)
       IN  IF SkipCurrent(current, visited)
           THEN /\ queue' = rest
                /\ pc' = AfterLoop(rest, "collect")
                /\ UNCHANGED <<visited, seen, product_urls, result, world, calls>>
           ELSE \E r \in Answers(current, answers) :
                  LET fetch_result == Get(cfg, current, r.outs, r.body)
                      v == MarkVisited(visited, current)
                      parsed == parse_sitemap_document(current, fetch_result.response[1])
                      pu == AppendUnseen([seen |-> seen, list |-> product_urls],
                                         parsed.product_urls)
                      q == EnqueueAll(rest, v, parsed.discovered)
                  IN  /\ visited' = v
                      /\ world' = Observe(current, r)
                      /\ calls' = Append(calls, Call(current, "sitemap"))
                      /\ IF ~FetchOk(fetch_result) \/ fetch_result.response = None
                         THEN /\ result' = [result EXCEPT
                                   !.sitemap_history = HistoryAfterFailure(@, current),
                                   !.errors = Append(@, Msg("Failed to fetch sitemap", current,
                                                     ErrorOrUnknown(fetch_result.error)))]
                              /\ queue' = QueueAfterFailure(rest)
                              /\ pc' = AfterLoop(QueueAfterFailure(rest), "collect")
                              /\ UNCHANGED <<seen, product_urls>>
                         ELSE /\ result' = [result EXCEPT !.sitemap_history = Append(@, current)]
                              /\ product_urls' = pu.list
                              /\ seen' = pu.seen
                              /\ queue' = q
                              /\ pc' = AfterLoop(q, "collect")
    /\ UNCHANGED <<cfg, sites, results, product_set, idx, get, rurl, rout>>

CrawlerLoop == CrawlerLoopOn(SitemapAnswers(cfg))

\* crawler _process_site: `result.product_urls = product_urls` after the loop
CrawlerCollect ==
    /\ pc = "collect" /\ cfg.processor = "crawler"
    /\ result' = [result EXCEPT !.product_urls = product_urls]
    /\ pc' = "products"
    /\ UNCHANGED <<cfg, sites, results, queue, visited, product_set, seen, product_urls,
                   idx, world, calls, get, rurl, rout>>

\* ProductSitemapCrawler._iterate_products: the position of the next URL it
\* yields after position i of the list, 0 when it is exhausted
NextYield(urls, i) ==
    IF \E j \in (i + 1)..Len(urls) : ~EmptyPath(urls[j])
    THEN CHOOSE j \in (i + 1)..Len(urls) :
            ~EmptyPath(urls[j]) /\ \A k \in (i + 1)..(j - 1) : EmptyPath(urls[k])
    ELSE 0

\* ProductSitemapCrawler._fetch_product, the endpoint answering r
FetchProduct(c, product_url, r) ==
    LET json_url == ToJsonUrl(product_url)
        fetch_result == Get(c, json_url, r.outs, r.body)
    IN  IF ~FetchOk(fetch_result) \/ fetch_result.response = None
        THEN ProductRecord(product_url, Some(json_url), None,
                 Some(Msg("Failed to fetch product", json_url,
                          ErrorOrUnknown(fetch_result.error))))
        ELSE IF fetch_result.response[1].json = "invalid"
        THEN ProductRecord(product_url, Some(json_url), None,
                 Some(Msg("Invalid JSON from", json_url, "ValueError")))
        ELSE ProductRecord(product_url, Some(json_url), JsonData(fetch_result.response[1]), None)

\* `self._max_products is not None and len(result.products) >= self._max_products`
CapReached(c, products) == c.max_products # None /\ Len(products) >= c.max_products[1]

\* crawler _process_site: one iteration of the loop over _iterate_products
CrawlerProduct ==
    /\ pc = "products" /\ cfg.processor = "crawler"
    /\ NextYield(product_urls, idx) # 0
    /\ ~Unparsable(product_urls[NextYield(product_urls, idx)])
    /\ LET j == NextYield(product_urls, idx)
           product_url == product_urls[j]
           json_url == ToJsonUrl(product_url)
       IN  \E r \in Answers(json_url, JsonAnswers(cfg)) :
             LET record == FetchProduct(cfg, product_url, r)
                 products == Append(result.products, record)
             IN  /\ result' = [result EXCEPT
                        !.products = products,
                        !.errors = RecordError(@, record)]
                 /\ world' = Observe(json_url, r)
                 /\ calls' = Append(calls, Call(json_url, "product"))
                 /\ idx' = j
                 /\ pc' = IF CapReached(cfg, products) THEN "return" ELSE "products"
    /\ UNCHANGED <<cfg, sites, results, queue, visited, product_set, seen, product_urls,
                   get, rurl, rout>>

\* the product loop reaches a URL on which urlparse (agent,
\* _build_product_json_url) or urlsplit (crawler, _iterate_products) raises
\* ValueError: nothing catches it, _process_site and run() end with it and
\* run() neither returns nor writes its results
ProductRaise ==
    /\ pc = "products"
    /\ IF cfg.processor = "agent"
       THEN idx < Len(result.product_urls) /\ Unparsable(result.product_urls[idx + 1])
       ELSE /\ NextYield(product_urls, idx) # 0
            /\ Unparsable(product_urls[NextYield(product_urls, idx)])
    /\ pc' = "raised"
    /\ UNCHANGED <<cfg, sites, results, queue, visited, product_set, seen, product_urls,
                   result, idx, world, calls, get, rurl, rout>>

\* the product loop has nothing left to iterate
ProductsExhausted ==
    /\ pc = "products"
    /\ IF cfg.processor = "agent"
       THEN idx >= Len(result.product_urls)
       ELSE NextYield(product_urls, idx) = 0

\* _process_site returns; run(): results.append(result)
Return ==
    /\ pc = "return" \/ ProductsExhausted
    /\ results' = Append(results, result)
    /\ pc' = "run"
    /\ UNCHANGED <<cfg, sites, queue, visited, product_set, seen, product_urls, result,
                   idx, world, calls, get, rurl, rout>>

\* run(): the loop over sites has ended, the results are written and returned
RunFinish ==
    /\ pc = "run" /\ Len(results) = Len(sites)
    /\ pc' = "done"
    /\ UNCHANGED <<cfg, sites, results, queue, visited, product_set, seen, product_urls,
                   result, idx, world, calls, get, rurl, rout>>

Next ==
    \/ AgentBegin
    \/ AgentLoop
    \/ AgentProduct
    \/ CrawlerBegin
    \/ CrawlerLoop
    \/ CrawlerCollect
    \/ CrawlerProduct
    \/ ProductRaise
    \/ Return
    \/ RunFinish

Spec == Init /\ [][Next]_vars

-----------------------------------------------------------------------------
(* The traversal of one site on its own: _process_site up to the product loop *)

InitTraverse ==
    /\ Init
    /\ Len(sites) = 1
    /\ cfg.max_products = None

NextTraverse ==
    \/ AgentBegin
    \/ AgentLoop
    \/ CrawlerBegin
    \/ CrawlerLoop
    \/ CrawlerCollect

\* _process_site is sequential code: a step that can be taken is taken
SpecTraverse == InitTraverse /\ [][NextTraverse]_vars /\ WF_vars(NextTraverse)

-----------------------------------------------------------------------------
(* The order of the traversal: one site whose sitemap indexes nest           *)

\* https://shop.example/sitemap_products_2.xml
U7 == MkURL("https", Host, <<"/", "sitemap_products_2.xml">>, <<>>)

\* https://shop.example/sitemap_products_3.xml
U8 == MkURL("https", Host, <<"/", "sitemap_products_3.xml">>, <<>>)

OrderSeedLists == SeqsUpTo({U1, U2}, MaxSeeds)

OrderBodies == {Body("sitemapindex", l, "invalid") : l \in SeqsUpTo({U2, U7, U8}, MaxLocs)}

OrderAnswers(c) ==
    {Answer(Always(c, "ok"), b) : b \in OrderBodies}
    \cup {Answer(Always(c, "http_error"), PlainBody)}

InitOrder ==
    /\ cfg \in {Config(p, DefaultMaxRetries, DefaultBackoff, None) : p \in {"agent", "crawler"}}
    /\ sites \in {<<s>> : s \in OrderSeedLists}
    /\ results = <<>> /\ pc = "run" /\ queue = <<>> /\ visited = {}
    /\ product_set = {} /\ seen = {} /\ product_urls = <<>> /\ result = NewResult(0, <<>>)
    /\ idx = 0 /\ world = <<>> /\ calls = <<>>
    /\ get = IdleGet /\ rurl = EmptyURL /\ rout = IdleResolve

AgentLoopOrder == AgentLoopOn(OrderAnswers(cfg))

CrawlerLoopOrder == CrawlerLoopOn(OrderAnswers(cfg))

NextOrder ==
    \/ AgentBegin
    \/ AgentLoopOrder
    \/ CrawlerBegin
    \/ CrawlerLoopOrder
    \/ CrawlerCollect

SpecOrder == InitOrder /\ [][NextOrder]_vars

-----------------------------------------------------------------------------
(* SitemapFetcher.get on its own: one call, attempt by attempt               *)

Backoffs == {DefaultBackoff, DefaultBackoff + 1}

IdleSite ==
    /\ sites = <<>> /\ results = <<>> /\ pc = "done" /\ queue = <<>> /\ visited = {}
    /\ product_set = {} /\ seen = {} /\ product_urls = <<>> /\ result = NewResult(0, <<>>)
    /\ idx = 0 /\ world = <<>> /\ calls = <<>>

InitFetch ==
    /\ cfg \in {Config("crawler", n, b, None) : n \in 0..MaxRetries, b \in Backoffs}
    /\ get = GetEntry(U1)
    /\ IdleSite
    /\ rurl = EmptyURL
    /\ rout = IdleResolve

\* one iteration of get()'s while loop
GetAttempt ==
    /\ GetLoops(cfg, get)
    /\ \E outcome \in Outcomes : get' = GetStep(cfg, get, outcome, PlainBody)
    /\ UNCHANGED <<cfg, siteVars, rurl, rout>>

\* get() leaves the loop without a response
GetReturn ==
    /\ get.returned = None /\ ~GetLoops(cfg, get)
    /\ get' = GetExhausted(cfg, get)
    /\ UNCHANGED <<cfg, siteVars, rurl, rout>>

NextFetch == GetAttempt \/ GetReturn

SpecFetch == InitFetch /\ [][NextFetch]_vars

-----------------------------------------------------------------------------
(* The two resolvers on their own                                            *)

SegmentAlphabet == {<<>>, <<"products">>, <<"a">>, <<"b">>, <<"a", ".json">>}

\* the path with the given segments between its separators
PathOf(segs, leading, trailing) ==
    (IF leading THEN <<"/">> ELSE <<>>) \o JoinSegments(segs)
    \o (IF trailing THEN <<"/">> ELSE <<>>)

\* what urlparse can give: with a netloc the path is empty or starts with "/"
ResolverInputs ==
    {MkURL(s, n, PathOf(segs, lead, trail), q) :
        s \in {"https", ""}, n \in {Host, ""}, q \in {<<>>, <<"v=1">>},
        segs \in SeqsUpTo(SegmentAlphabet, MaxSegs), lead \in BOOLEAN, trail \in BOOLEAN}

WellFormed(u) == u.netloc # "" => (u.path = <<>> \/ Head(u.path) = "/")

InitResolve ==
    /\ rurl \in {u \in ResolverInputs : WellFormed(u)}
    /\ rout = IdleResolve
    /\ cfg = Config("agent", DefaultMaxRetries, DefaultBackoff, None)
    /\ get = IdleGet
    /\ IdleSite

ResolveAgent ==
    /\ rout.agent = None
    /\ rout' = [rout EXCEPT !.agent = Some(BuildProductJsonUrl(rurl))]
    /\ UNCHANGED <<cfg, siteVars, get, rurl>>

ResolveCrawler ==
    /\ rout.crawler = None
    /\ rout' = [rout EXCEPT !.crawler = Some(Some(ToJsonUrl(rurl)))]
    /\ UNCHANGED <<cfg, siteVars, get, rurl>>

NextResolve == ResolveAgent \/ ResolveCrawler

SpecResolve == InitResolve /\ [][NextResolve]_vars

-----------------------------------------------------------------------------
(* The two classifiers on their own: one document, classified by each        *)

InitClassify ==
    /\ cfg = Config("agent", DefaultMaxRetries, DefaultBackoff, None)
    /\ rurl \in {U1, U2}
    /\ \E body \in SitemapBodies : world = (rurl :> Answer(Always(cfg, "ok"), body))
    /\ rout = IdleResolve
    /\ get = IdleGet
    /\ sites = <<>> /\ results = <<>> /\ pc = "done" /\ queue = <<>> /\ visited = {}
    /\ product_set = {} /\ seen = {} /\ product_urls = <<>> /\ result = NewResult(0, <<>>)
    /\ idx = 0 /\ calls = <<>>

ClassifyAgent ==
    /\ rout.agent = None
    /\ rout' = [rout EXCEPT !.agent = Some(ParseSitemapDocument(rurl, world[rurl].body))]
    /\ UNCHANGED <<cfg, siteVars, get, rurl>>

ClassifyCrawler ==
    /\ rout.crawler = None
    /\ rout' = [rout EXCEPT !.crawler = Some(parse_sitemap_document(rurl, world[rurl].body))]
    /\ UNCHANGED <<cfg, siteVars, get, rurl>>

NextClassify == ClassifyAgent \/ ClassifyCrawler

SpecClassify == InitClassify /\ [][NextClassify]_vars

-----------------------------------------------------------------------------
(* Properties                                                                *)

\* C1: for max_retries = N >= 1, one call of get() never issues more than N
\* GET requests, whatever the attempts end in (a 429 attempt counts), and a
\* call in which every attempt failed has issued exactly N.
C1_RetryCap ==
    cfg.max_retries >= 1 =>
        /\ NumGets(get) <= cfg.max_retries
        /\ (get.returned # None /\ get.returned[1].response = None)
               => NumGets(get) = cfg.max_retries

\* a call that failed on every attempt, with a 429 and an exception among them
C1_Witness ==
    /\ cfg.max_retries = MaxRetries
    /\ get.returned # None /\ get.returned[1].response = None
    /\ get.last_error # None
    /\ \E i \in 1..Len(get.events) : get.events[i].why = "r429"
    /\ NumGets(get) = MaxRetries

\* C2: every FetchResult get() returns has exactly one of response and error
\* set, and ok holds exactly when the response is there and the error is not.
C2_ExactlyOne ==
    get.returned # None =>
        LET r == get.returned[1]
        IN  /\ (r.response # None) # (r.error # None)
            /\ FetchOk(r) <=> (r.response # None /\ r.error = None)

(* What the properties of a site's processing speak of *)

\* the site being processed, or the last one processed; 0 before the first
SiteIndex == IF pc \in {"run", "done"} THEN Len(results) ELSE Len(results) + 1

Seeds == IF SiteIndex = 0 THEN <<>> ELSE sites[SiteIndex]

IsSitemapCall(c) == c.phase = "sitemap"

CallURLs(cs) == [i \in 1..Len(cs) |-> cs[i].url]

\* the URLs fetcher.get was called on by the while loop, in call order
SitemapFetches == CallURLs(SelectSeq(calls, IsSitemapCall))

\* the fetch of an observed URL succeeded
AnswerOk(u) == FetchOk(Get(cfg, u, world[u].outs, world[u].body))

\* the locations of the document fetched from u
DocLocs(u) == IF AnswerOk(u) THEN world[u].body.locs ELSE <<>>

\* the product URLs the processor's classifier takes from the document at u
DocProducts(u) ==
    IF ~AnswerOk(u) THEN <<>>
    ELSE IF cfg.processor = "agent"
         THEN ParseSitemapDocument(u, world[u].body).product_urls
         ELSE parse_sitemap_document(u, world[u].body).product_urls

\* the distinct URLs seen among the seeds and the fetched documents
Observed ==
    (Range(Seeds) \ {EmptyURL}) \cup UNION {Range(DocLocs(u)) : u \in Range(SitemapFetches)}

\* the while loop of the current site has ended
Traversed ==
    \/ pc \in {"collect", "products", "return"}
    \/ pc \in {"run", "done"} /\ SiteIndex > 0

\* the product URLs the traversal has collected so far
Collected ==
    IF cfg.processor = "crawler" /\ pc \in {"traverse", "collect"}
    THEN product_urls
    ELSE result.product_urls

\* C3: the traversal of a site always ends, with the queue empty, whatever
\* the sitemap graph, self-listing indexes and mutual references included.
C3_TraversalTerminates == (pc = "traverse") ~> (pc # "traverse" /\ queue = <<>>)

\* the traversal ended on an index that lists itself and a sitemap that lists it back
C3_Witness ==
    /\ pc \in {"collect", "products"} /\ queue = <<>>
    /\ \E u, v \in Range(SitemapFetches) :
          /\ u # v
          /\ AnswerOk(u) /\ world[u].body.root = "sitemapindex"
          /\ AnswerOk(v) /\ world[v].body.root = "sitemapindex"
          /\ {u, v} \subseteq Range(DocLocs(u))
          /\ u \in Range(DocLocs(v))

\* C4: in every returned SiteResult no URL occurs twice in the product-sitemap
\* list nor twice in the product-URL list, whatever the seed list.
C4_NoDuplicates ==
    \A i \in 1..Len(results) :
        NoDup(results[i].product_sitemaps) /\ NoDup(results[i].product_urls)

\* C5: within a site no sitemap URL is fetched twice, the fetched URLs are
\* among the distinct URLs observed (seeds and extracted locations), so the
\* fetches are no more than those, and the visited set is exactly the URLs
\* fetched.
C5_FetchedOnce ==
    /\ NoDup(SitemapFetches)
    /\ Range(SitemapFetches) \subseteq Observed
    /\ Len(SitemapFetches) <= Cardinality(Observed)
    /\ visited = Range(SitemapFetches)

\* two sitemaps fetched, one of them a repeated seed that a fetched document lists again
C5_Witness ==
    /\ Traversed /\ Len(SitemapFetches) = 2
    /\ \E u \in Range(SitemapFetches) :
          /\ \E v \in Range(SitemapFetches) : u \in Range(DocLocs(v))
          /\ \E i, j \in 1..Len(Seeds) : i # j /\ Seeds[i] = u /\ Seeds[j] = u

\* C6: a site with an empty seed list is processed without any fetch call and
\* its result has no product sitemap, no product URL, no record and exactly
\* one error, the message about the missing sitemaps.
C6_EmptySeeds ==
    /\ (SiteIndex > 0 /\ Seeds = <<>>) => (calls = <<>> /\ DOMAIN world = {})
    /\ \A i \in 1..Len(results) :
          sites[i] = <<>> =>
              /\ results[i].product_sitemaps = <<>>
              /\ results[i].product_urls = <<>>
              /\ results[i].products = <<>>
              /\ results[i].errors \in {<<NoSitemapsAgent>>, <<NoSitemapsCrawler>>}

\* a site with no seed has been processed
C6_Witness == Len(results) >= 1 /\ sites[1] = <<>> /\ Len(results[1].errors) = 1

\* the error string a failed fetch of sitemap u leaves
IsSitemapFailure(e, u) ==
    e.url = u /\ e.text \in {"Failed to fetch", "Failed to fetch sitemap"}

SitemapFailures(u) ==
    {k \in 1..Len(result.errors) : IsSitemapFailure(result.errors[k], u)}

\* C7: a sitemap whose fetch failed leaves exactly one error string and takes
\* nothing away: the product URLs of every sitemap fetched successfully,
\* before it or after it, are in the product-URL list, and once the traversal
\* has ended every queued seed has been processed.
C7_FailureIsolated ==
    /\ \A b \in Range(SitemapFetches) : Range(DocProducts(b)) \subseteq Range(Collected)
    /\ \A a \in Range(SitemapFetches) : ~AnswerOk(a) => Cardinality(SitemapFailures(a)) = 1
    /\ Traversed => Range(Seeds) \ {EmptyURL} \subseteq Range(SitemapFetches)

\* the first seed failed, the second was fetched after it and its products collected
C7_Witness ==
    /\ pc = "products" /\ Len(Seeds) = 2
    /\ SitemapFetches = Seeds
    /\ ~AnswerOk(Seeds[1]) /\ AnswerOk(Seeds[2])
    /\ DocProducts(Seeds[2]) # <<>>
    /\ Range(DocProducts(Seeds[2])) \subseteq Range(result.product_urls)
    /\ Len(result.errors) = 1

\* C8: two runs of _process_site on the same site against the same answers
\* return the same product sitemaps, product URLs, records and errors, in the
\* same order.
C8_Deterministic ==
    \A i, j \in 1..Len(results) :
        sites[i] = sites[j] =>
            /\ results[i].product_sitemaps = results[j].product_sitemaps
            /\ results[i].product_urls = results[j].product_urls
            /\ results[i].products = results[j].products
            /\ results[i].errors = results[j].errors

\* the second run of a site has returned, with records and errors in its result
C8_Witness ==
    /\ Len(results) = 2 /\ sites[1] = sites[2]
    /\ results[2].products # <<>> /\ results[2].errors # <<>>
    /\ Len(results[2].product_sitemaps) >= 2

(* What the properties of the resolvers speak of *)

\* segs[i] is the first segment equal to products
FirstProducts(segs, i) ==
    segs[i] = <<"products">> /\ \A j \in 1..(i - 1) : segs[j] # <<"products">>

NoProducts(segs) == \A i \in 1..Len(segs) : segs[i] # <<"products">>

\* /h1/.../hk
RECURSIVE SlashEach(_)
SlashEach(segs) ==
    IF segs = <<>> THEN <<>> ELSE <<"/">> \o Head(segs) \o SlashEach(Tail(segs))

\* /products/h1/.../hk followed by the extension, for the handle after segs[i]
EndpointPath(segs, i) ==
    <<"/", "products">> \o SlashEach(SubSeq(segs, i + 1, Len(segs))) \o <<JsonExtension>>

\* what the claim says of the resolution `out` of a URL u that has a host
ResolvedAsClaimed(u, out) ==
    LET segs == Segments(u.path)
    IN  /\ \A i \in 1..Len(segs) :
              FirstProducts(segs, i) =>
                  IF i < Len(segs)
                  THEN /\ out # None
                       /\ out[1].netloc = u.netloc
                       /\ out[1].path = EndpointPath(segs, i)
                  ELSE out = None
        /\ NoProducts(segs) => out = None

C10_OneRecordPerURL ==
    \A i \in 1..Len(results) :
        cfg.max_products = None =>
            /\ Len(results[i].products) = Len(results[i].product_urls)
            /\ \A k \in 1..Len(results[i].products) :
                  results[i].products[k].product_url = results[i].product_urls[k]

\* run() has ended, by its return or by an exception
RunEnded == pc \in {"done", "raised"}

\* C11: when run() ends it has one SiteResult per input site, in input order,
\* whatever failed at a site: a failure at one site neither keeps the later
\* sites from being processed nor removes a result.
C11_OneResultPerSite ==
    /\ Len(results) <= Len(sites)
    /\ \A i \in 1..Len(results) : results[i].brand = i
    /\ RunEnded => Len(results) = Len(sites)

\* C12: every ProductRecord of a returned SiteResult has exactly one of data
\* and error set, whatever the endpoint fetch ended in and whatever JSON value
\* the body decoded to.
C12_DataXorError ==
    \A i \in 1..Len(results) :
        \A k \in 1..Len(results[i].products) :
            LET record == results[i].products[k]
            IN  (record.data # None) # (record.error # None)

\* the errors of the records of a result, in record order
RECURSIVE RecordErrors(_)
RecordErrors(products) ==
    IF products = <<>> THEN <<>>
    ELSE (IF Head(products).error # None THEN <<Head(products).error[1]>> ELSE <<>>)
         \o RecordErrors(Tail(products))

\* the error list ends with the records' errors in record order, and what
\* precedes them holds none of them
ProductErrorsLast(r) ==
    LET perr == RecordErrors(r.products)
        n == Len(r.errors) - Len(perr)
    IN  /\ n >= 0
        /\ SubSeq(r.errors, n + 1, Len(r.errors)) = perr
        /\ \A k \in 1..n : r.errors[k] \notin Range(perr)

\* C13: in a returned SiteResult the error of every ProductRecord is in the
\* error list, the product errors stand there in the order of their records
\* and after every error of the sitemap traversal.
C13_ProductErrorsListed ==
    \A i \in 1..Len(results) : ProductErrorsLast(results[i])

\* a returned result with a traversal error followed by two product errors
C13_Witness ==
    \E i \in 1..Len(results) :
        /\ Len(RecordErrors(results[i].products)) >= 2
        /\ Len(results[i].errors) > Len(RecordErrors(results[i].products))

IsProductCall(c) == c.phase = "product"

\* the product endpoints fetched for the current site, in call order
ProductFetches == CallURLs(SelectSeq(calls, IsProductCall))

HasPath(u) == ~EmptyPath(u)

RecordURLs(products) == [k \in 1..Len(products) |-> products[k].product_url]

\* the records are those of the first product URLs the crawler processes
FirstProcessed(r) ==
    LET processed == SelectSeq(r.product_urls, HasPath)
        urls == RecordURLs(r.products)
    IN  Len(urls) <= Len(processed) /\ urls = SubSeq(processed, 1, Len(urls))

\* C14: with max_products = N the crawler never holds more than N records for
\* a site, fetches no more than N product endpoints for it, and the records
\* are those of the first processed product URLs in discovery order.
C14_CapRespected ==
    (cfg.processor = "crawler" /\ cfg.max_products # None) =>
        LET N == cfg.max_products[1]
        IN  /\ Len(result.products) <= N
            /\ Len(ProductFetches) <= N
            /\ pc \in {"products", "return"} => FirstProcessed(result)
            /\ \A i \in 1..Len(results) :
                  Len(results[i].products) <= N /\ FirstProcessed(results[i])

\* the last attempt of the call ended in a 429 response
LastAttemptThrottled ==
    get.events # <<>> /\ get.events[Len(get.events)].why = "r429"

\* C15: a get() call whose attempts are exhausted without a 2xx response
\* returns no response and the error of its last attempt; attempts ending in
\* 429 surface as a failure that carries an error description.
C15_LastErrorReturned ==
    (cfg.max_retries >= 1 /\ get.returned # None /\ get.attempts = cfg.max_retries
         /\ get.returned[1].response = None) =>
        LET r == get.returned[1]
        IN  /\ r.error # None
            /\ LastAttemptThrottled => r.error = Some("r429")
            /\ ~LastAttemptThrottled => r.error = get.last_error

IsSleep(e) == e.ev = "sleep"

\* the sleeps of the call so far, in order
Sleeps == SelectSeq(get.events, IsSleep)

\* every attempt so far failed with an error other than a 429 response
OnlyErrors ==
    /\ get.last_error # None \/ get.events = <<>>
    /\ \A i \in 1..Len(get.events) : get.events[i].why \notin {"r429", "polite"}

\* C16: get() does not sleep before its first attempt, and while every attempt
\* fails with a non-429 error its sleeps are b^1, b^2, ..., one before each
\* attempt after the first and none after the last: b^1 .. b^(max_retries-1)
\* when the call returns.
C16_BackoffSequence ==
    /\ get.events # <<>> => get.events[1] = GetEvent
    /\ OnlyErrors =>
          /\ Len(Sleeps) = (IF get.attempts = 0 THEN 0 ELSE get.attempts - 1)
          /\ \A k \in 1..Len(Sleeps) :
                /\ Sleeps[k].secs = (IF k = 1 THEN 1 ELSE Sleeps[k - 1].secs) * cfg.retry_backoff
                /\ get.events[2 * k] = Sleeps[k]
                /\ get.events[2 * k + 1] = GetEvent
          /\ Len(get.events) = 2 * Len(Sleeps) + (IF get.attempts = 0 THEN 0 ELSE 1)
          /\ (get.returned # None /\ cfg.max_retries >= 1) => Len(Sleeps) = cfg.max_retries - 1

\* a call of MaxRetries attempts that all raised has returned
C16_Witness ==
    /\ OnlyErrors /\ get.returned # None /\ get.returned[1].response = None
    /\ cfg.max_retries = MaxRetries /\ cfg.retry_backoff = DefaultBackoff + 1
    /\ Len(Sleeps) = MaxRetries - 1
    /\ Sleeps[Len(Sleeps)].secs > cfg.retry_backoff

\* the number of the attempt that event i belongs to
AttemptOf(i) == Cardinality({j \in 1..i : get.events[j] = GetEvent})

\* C17: a 429 on attempt n is followed by one sleep of backoff^n and then by
\* attempt n+1; once the call has returned, no 429 sleep stands last, with no
\* attempt after it.
C17_ThrottleSleepOnce ==
    \A i \in 1..Len(get.events) :
        get.events[i].why = "r429" =>
            /\ get.events[i].secs = Pow(cfg.retry_backoff, AttemptOf(i))
            /\ get.events[i - 1] = GetEvent
            /\ i < Len(get.events) => get.events[i + 1] = GetEvent
            /\ get.returned # None => i < Len(get.events)

\* the GETs and sleeps of one fetcher.get call of the run
CallEvents(u) == RunGet(cfg, GetEntry(u), world[u].outs, world[u].body).events

\* the GETs and sleeps made through the fetcher for the current site, in order
RECURSIVE EventsOf(_)
EventsOf(cs) ==
    IF cs = <<>> THEN <<>> ELSE CallEvents(Head(cs).url) \o EventsOf(Tail(cs))

IsPolite(e) == e.why = "polite"

\* C18: every get() that returns a 2xx response has slept the politeness delay
\* once, last of all, and between any two consecutive GET requests of a run,
\* within one get() call or across calls, there is at least one sleep.
C18_Throttled ==
    /\ \A k \in 1..Len(calls) :
          LET ev == CallEvents(calls[k].url)
          IN  AnswerOk(calls[k].url) =>
                  /\ Len(SelectSeq(ev, IsPolite)) = 1
                  /\ ev[Len(ev)] = PoliteSleep(cfg)
    /\ LET tr == EventsOf(calls)
       IN  \A i \in 1..(Len(tr) - 1) : tr[i] = GetEvent => tr[i + 1] # GetEvent

\* the sitemap indexes fetched successfully for the current site
FetchedIndexes ==
    {u \in Range(SitemapFetches) : AnswerOk(u) /\ world[u].body.root = "sitemapindex"}

\* C19 as stated, of both processors: once the traversal has ended, every
\* child of every fetched index has been fetched, and every child matching
\* the product heuristic is in the product-sitemap list.
C19_ChildrenAsStated ==
    Traversed =>
        \A u \in FetchedIndexes :
            \A c \in Range(world[u].body.locs) :
                /\ c \in Range(SitemapFetches)
                /\ ProductHint(c) => c \in Range(result.product_sitemaps)

\* C19 amended: the agent records, enqueues and fetches the children that
\* match the heuristic and drops the others, neither recording nor fetching
\* them; the crawler fetches every child and records none: its
\* product-sitemap list stays the seed list.
C19_IndexChildren ==
    Traversed =>
        /\ cfg.processor = "crawler" => result.product_sitemaps = Seeds
        /\ \A u \in FetchedIndexes :
              \A c \in Range(world[u].body.locs) :
                  IF cfg.processor = "crawler"
                  THEN c \in Range(SitemapFetches)
                  ELSE IF ProductHint(c)
                  THEN c \in Range(SitemapFetches) /\ c \in Range(result.product_sitemaps)
                  ELSE c \notin Range(Seeds) =>
                           c \notin Range(SitemapFetches) /\ c \notin Range(result.product_sitemaps)

\* the agent has traversed an index that lists a matching child and a child
\* that does not match and is no seed
C19_Witness ==
    /\ cfg.processor = "agent" /\ Traversed
    /\ \E u \in FetchedIndexes :
          \E c, d \in Range(world[u].body.locs) :
              /\ ProductHint(c) /\ c \in Range(SitemapFetches)
              /\ ~ProductHint(d) /\ d \notin Range(Seeds) /\ d \notin Range(SitemapFetches)

\* the document being classified
Document == world[rurl].body

\* some page location of the document contains /products/
AnyProductPage == \E i \in 1..Len(Document.locs) : HasProductsPath(Document.locs[i])

UnrecognisedStep ==
    /\ pc = "traverse" /\ queue # <<>>
    /\ ~SkipCurrent(Head(queue), visited)
    /\ Head(queue) \in DOMAIN world'
    /\ FetchOk(Get(cfg, Head(queue), world'[Head(queue)].outs, world'[Head(queue)].body))
    /\ world'[Head(queue)].body.root \notin {"sitemapindex", "urlset"}

\* what the processor's classifier returns for the document at u is empty
ClassifiedEmpty(u, body) ==
    IF cfg.processor = "agent"
    THEN ParseSitemapDocument(u, body) = [product_sitemaps |-> <<>>, product_urls |-> <<>>]
    ELSE parse_sitemap_document(u, body) = [product_urls |-> <<>>, discovered |-> <<>>]

\* C21: for a fetched body with neither a sitemapindex nor a urlset root the
\* classifier returns two empty lists, the iteration appends no error, adds
\* no URL to the product sitemaps, the product URLs or the queue, and the
\* loop goes on with the rest of the queue (the crawler's sitemap_history
\* takes the fetched URL, as for every fetch).
C21_UnrecognisedNoOp ==
    [][UnrecognisedStep =>
          /\ ClassifiedEmpty(Head(queue), world'[Head(queue)].body)
          /\ result'.errors = result.errors
          /\ result'.product_sitemaps = result.product_sitemaps
          /\ result'.product_urls = result.product_urls
          /\ result'.products = result.products
          /\ product_urls' = product_urls
          /\ product_set' = product_set /\ seen' = seen
          /\ queue' = Tail(queue)
          /\ (Tail(queue) # <<>> => pc' = "traverse")
          /\ (cfg.processor = "crawler" =>
                  result'.sitemap_history = Append(result.sitemap_history, Head(queue)))]_vars

\* a document with <loc> elements under an unrecognised root was fetched, left
\* no trace, and the next queue entry was fetched after it
C21_Witness ==
    /\ Len(SitemapFetches) = 2
    /\ AnswerOk(SitemapFetches[1]) /\ world[SitemapFetches[1]].body = StrayBody
    /\ AnswerOk(SitemapFetches[2]) /\ world[SitemapFetches[2]].body.root = "urlset"
    /\ result.errors = <<>>
    /\ Len(Collected) = 2 /\ U3 \notin Range(Collected)

\* the queue holds no URL twice and no visited URL
QueueClean == NoDup(queue) /\ Range(queue) \cap visited = {}

\* the URLs an iteration of the while loop appended to the queue
Enqueued == SubSeq(queue', Len(queue), Len(queue'))

\* an iteration of the while loop keeps the rest of the queue and appends
\* only URLs that are neither visited nor already queued
EnqueuesOnlyNew ==
    (pc = "traverse" /\ queue # <<>> /\ queue' # queue) =>
        /\ Len(queue') >= Len(queue) - 1
        /\ SubSeq(queue', 1, Len(queue) - 1) = Tail(queue)
        /\ Range(Enqueued) \cap visited' = {}
        /\ Range(Enqueued) \cap Range(Tail(queue)) = {}
        /\ NoDup(Enqueued)

\* C22 as stated: during a site's traversal, whatever the seed list, the queue
\* holds no URL twice and no URL of the visited set, and a URL is enqueued
\* only if it is neither visited nor already queued.
C22_QueueCleanAsStated == [](pc = "traverse" => QueueClean) /\ [][EnqueuesOnlyNew]_vars

\* the seed URLs that occur more than once in the seed list of the site
RepeatedSeeds == {Seeds[i] : i \in {j \in 1..Len(Seeds) : \E k \in 1..Len(Seeds) : k # j /\ Seeds[k] = Seeds[j]}}

\* the URLs that are twice in the queue, or in the queue and visited
Unclean ==
    {queue[i] : i \in {j \in 1..Len(queue) :
                          queue[j] \in visited \/ \E k \in 1..Len(queue) : k # j /\ queue[k] = queue[j]}}

\* C22 amended: the agent's queue holds no URL twice and no visited URL,
\* whatever the seed list; the crawler's queue starts as the seed list as
\* given, so the only URLs that are twice in it, or in it and visited, are
\* seeds that the seed list repeats; in both a URL taken from a document is
\* enqueued only if it is neither visited nor already queued.
C22_QueueClean ==
    /\ [](pc = "traverse" =>
            /\ cfg.processor = "agent" => QueueClean
            /\ cfg.processor = "crawler" => Unclean \subseteq RepeatedSeeds)
    /\ [][EnqueuesOnlyNew]_vars

\* the crawler given a seed twice: the seed is visited and still queued, and
\* a child of the document was enqueued behind it
C22_Witness ==
    /\ cfg.processor = "crawler" /\ pc = "traverse"
    /\ Seeds = <<U1, U1>>
    /\ visited = {U1} /\ queue = <<U1, U2>>

\* the locations of the sitemap-index documents fetched so far for the site
IndexChildren ==
    UNION {Range(world[u].body.locs) :
             u \in {v \in Range(SitemapFetches) :
                      AnswerOk(v) /\ world[v].body.root = "sitemapindex"}}

\* the page locations of the urlset documents fetched so far for the site
PageLocations ==
    UNION {Range(world[u].body.locs) :
             u \in {v \in Range(SitemapFetches) :
                      AnswerOk(v) /\ world[v].body.root = "urlset"}}

\* C23: every URL in the queue, and every URL fetched as a sitemap, is a seed
\* or a location of a fetched sitemap index: a URL that was only seen as a
\* page location of a urlset is never queued and never fetched as a sitemap.
C23_LeavesNotQueued ==
    /\ Range(queue) \cup Range(SitemapFetches) \subseteq Range(Seeds) \cup IndexChildren
    /\ (PageLocations \ (Range(Seeds) \cup IndexChildren))
           \cap (Range(queue) \cup Range(SitemapFetches) \cup visited) = {}

\* an index and the urlset it lists were fetched, the urlset had page
\* locations, and the traversal ended without fetching any of them
C23_Witness ==
    /\ pc = "products" /\ queue = <<>>
    /\ SitemapFetches = <<U1, U2>>
    /\ AnswerOk(U1) /\ world[U1].body.root = "sitemapindex"
    /\ AnswerOk(U2) /\ world[U2].body.root = "urlset" /\ Len(world[U2].body.locs) = 2
    /\ PageLocations \cap visited = {}

\* a product endpoint has been fetched for the current site
ProductFetchBegun == \E i \in 1..Len(calls) : calls[i].phase = "product"

\* the fetches of the site so far are all its sitemap fetches, then its product fetches
SitemapsThenProducts ==
    \A i, j \in 1..Len(calls) :
        (i < j /\ calls[i].phase = "product") => calls[j].phase = "product"

\* C24: within a site no product endpoint is fetched while the work queue is
\* non-empty, every sitemap fetch comes before the first product fetch, and
\* the product-URL list does not change once the product loop has begun.
C24_PhasesOrdered ==
    /\ [](/\ SitemapsThenProducts
          /\ ProductFetchBegun => queue = <<>>
          /\ pc = "products" => queue = <<>>)
    /\ [][(pc = "products" \/ ProductFetchBegun) /\ pc # "run" =>
              /\ result'.product_urls = result.product_urls
              /\ product_urls' = product_urls
              /\ queue' = <<>>]_vars

\* two sitemaps were fetched and then two products, from the list as the
\* traversal left it
C24_Witness ==
    /\ Len(calls) = 4
    /\ calls[2].phase = "sitemap" /\ calls[3].phase = "product" /\ calls[4].phase = "product"
    /\ Len(result.product_urls) = 2 /\ Len(result.products) = 2
    /\ queue = <<>>

\* the sitemaps the loop tries to enqueue after fetching u, in order
Children(u) ==
    IF ~AnswerOk(u) THEN <<>>
    ELSE IF cfg.processor = "agent"
         THEN ParseSitemapDocument(u, world[u].body).product_sitemaps
         ELSE parse_sitemap_document(u, world[u].body).discovered

\* the children of the documents fetched from position i on, in fetch order
RECURSIVE ChildrenFrom(_)
ChildrenFrom(i) ==
    IF i > Len(SitemapFetches) THEN <<>>
    ELSE Children(SitemapFetches[i]) \o ChildrenFrom(i + 1)

\* a sequence without the later occurrences of its elements
RECURSIVE FirstOccurrences(_, _)
FirstOccurrences(s, had) ==
    IF s = <<>> THEN <<>>
    ELSE IF Head(s) \in had THEN FirstOccurrences(Tail(s), had)
         ELSE <<Head(s)>> \o FirstOccurrences(Tail(s), had \cup {Head(s)})

IsNonEmptyStr(u) == ~IsEmptyStr(u)

\* the sitemap URLs of the site in the order in which they were first met:
\* the non-empty seeds in seed order, then the children of each fetched
\* document in the order the documents were fetched
FirstMet == FirstOccurrences(SelectSeq(Seeds, IsNonEmptyStr) \o ChildrenFrom(1), {})

\* C25: sitemaps are fetched in the order in which they were first enqueued:
\* the distinct non-empty seeds in seed order, then the sitemaps discovered
\* from the first fetched document, then those discovered from the second,
\* and so on; when the traversal has ended all of them have been fetched.
C25_FifoOrder ==
    /\ Len(SitemapFetches) <= Len(FirstMet)
    /\ SitemapFetches = SubSeq(FirstMet, 1, Len(SitemapFetches))
    /\ Traversed => SitemapFetches = FirstMet

\* two seeds, the first an index of two children, and a grandchild discovered
\* from a document fetched later: seeds first, then children, then the grandchild
C25_Witness ==
    /\ Traversed
    /\ Seeds = <<U1, U2>>
    /\ Children(U1) = <<U7, U2>>
    /\ Children(U2) = <<U8, U7>>
    /\ SitemapFetches = <<U1, U2, U7, U8>>

\* s is the beginning of t
IsPrefixOf(s, t) == Len(s) <= Len(t) /\ SubSeq(t, 1, Len(s)) = s

\* C26: from the creation of a site's SiteResult to its return every list
\* field of it only grows at its end: at each step the old value of the product
\* sitemaps, the product URLs, the product records, the errors and the sitemap
\* history is a prefix of the new value.
C26_AppendOnly ==
    [][pc # "run" =>
          /\ IsPrefixOf(result.product_sitemaps, result'.product_sitemaps)
          /\ IsPrefixOf(result.product_urls, result'.product_urls)
          /\ IsPrefixOf(result.products, result'.products)
          /\ IsPrefixOf(result.errors, result'.errors)
          /\ IsPrefixOf(result.sitemap_history, result'.sitemap_history)
          /\ result'.brand = result.brand]_vars

\* a result all of whose lists have grown more than once
C26_Witness ==
    /\ pc = "products"
    /\ Len(result.product_sitemaps) = 2
    /\ Len(result.product_urls) = 2
    /\ Len(result.products) = 2
    /\ Len(result.errors) >= 2

\* endpoint resolution fails for the product URL: the agent's resolver
\* returns None (the crawler's always returns a URL)
ResolutionFails(u) == cfg.processor = "agent" /\ BuildProductJsonUrl(u) = None

\* the record of a product URL whose endpoint could not be resolved
UnresolvedRecord(p) == p.json_url = None /\ p.data = None /\ p.error # None

\* the records of the result for which an endpoint was resolved
ResolvedRecords(r) ==
    {j \in 1..Len(r.products) : r.products[j].json_url # None}

\* C27: without a cap, a product URL whose endpoint cannot be resolved gets a
\* ProductRecord with no endpoint, no data and an error, no fetch is issued
\* for it, the loop goes on to the next product URL, and every product URL
\* of a returned SiteResult has a record.
C27_UnresolvedRecorded ==
    cfg.max_products = None =>
        /\ \A i \in 1..Len(results) :
              /\ \A j \in 1..Len(results[i].products) :
                    ResolutionFails(results[i].products[j].product_url) =>
                        UnresolvedRecord(results[i].products[j])
              /\ \A k \in 1..Len(results[i].product_urls) :
                    \E j \in 1..Len(results[i].products) :
                        results[i].products[j].product_url = results[i].product_urls[k]
        /\ (pc = "run" /\ results # <<>>) =>
              Len(ProductFetches) = Cardinality(ResolvedRecords(results[Len(results)]))

\* run() calls _process_site for the next site
SiteBegins == pc = "run" /\ Len(results) < Len(sites)

\* the traversal state of a site at the start of its while loop holds nothing
\* but what its own seed list gives
FreshState ==
    /\ visited' = {} /\ seen' = {} /\ product_urls' = <<>> /\ calls' = <<>>
    /\ Range(queue') \subseteq Range(sites[Len(results) + 1])
    /\ product_set' \subseteq Range(sites[Len(results) + 1])
    /\ result'.product_urls = <<>> /\ result'.products = <<>>
    /\ result'.sitemap_history = <<>>
    /\ Range(result'.product_sitemaps) \subseteq Range(sites[Len(results) + 1])

\* a result without the row it belongs to
SiteOutcome(r) == [r EXCEPT !.brand = 0]

\* C28: each site starts with a fresh visited set, queue and accumulators; the
\* SiteResult of a site listed again later in the run is the one it got the
\* first time, with nothing processed before it; and the sitemaps a site
\* lists are fetched for it again although an earlier site had them visited.
C28_SitesIndependent ==
    /\ [][SiteBegins => FreshState]_vars
    /\ [](/\ \A i \in 1..Len(results) :
                sites[i] = sites[1] => SiteOutcome(results[i]) = SiteOutcome(results[1])
          /\ (Traversed /\ SiteIndex > 0) =>
                /\ Range(SelectSeq(Seeds, IsNonEmptyStr)) \subseteq Range(SitemapFetches)
                /\ visited = Range(SitemapFetches))

\* the second site of the run lists what the first listed: its sitemaps were
\* fetched again and it collected the same products
C28_Witness ==
    /\ pc = "run" /\ Len(results) = 2 /\ sites[1] = sites[2]
    /\ Len(SitemapFetches) = 2 /\ Len(ProductFetches) = 2
    /\ Len(results[2].product_urls) = 2
    /\ results[2].products = results[1].products

\* the agent fetches the head of the queue and the classifier's urlset
\* fallback returns the source URL as a product sitemap
FallbackStep ==
    /\ cfg.processor = "agent" /\ pc = "traverse" /\ queue # <<>>
    /\ ~SkipCurrent(Head(queue), visited)
    /\ Head(queue) \in DOMAIN world'
    /\ FetchOk(Get(cfg, Head(queue), world'[Head(queue)].outs, world'[Head(queue)].body))
    /\ world'[Head(queue)].body.root = "urlset"
    /\ ParseSitemapDocument(Head(queue), world'[Head(queue)].body).product_sitemaps
           = <<Head(queue)>>

\* C29: in the agent's _process_site every URL in the queue, in the visited
\* set or fetched by the traversal is in result.product_sitemaps, so the
\* urlset fallback that returns the source URL adds no entry to the list and
\* puts nothing on the queue.
C29_QueuedAreRecorded ==
    /\ [](cfg.processor = "agent" =>
            /\ Range(queue) \cup visited \cup Range(SitemapFetches)
                   \subseteq Range(result.product_sitemaps)
            /\ product_set = Range(result.product_sitemaps))
    /\ [][FallbackStep =>
             /\ result'.product_sitemaps = result.product_sitemaps
             /\ product_set' = product_set
             /\ queue' = Tail(queue)]_vars

\* the agent fetched a urlset without product pages from a URL that matches
\* the heuristic: the fallback returned the URL, which was in the list already
C29_Witness ==
    /\ cfg.processor = "agent" /\ pc = "products"
    /\ SitemapFetches = <<U1, U2>>
    /\ AnswerOk(U2) /\ world[U2].body.root = "urlset"
    /\ ParseSitemapDocument(U2, world[U2].body).product_sitemaps = <<U2>>
    /\ result.product_sitemaps = <<U1, U2>>

\* C30: in the crawler's _process_site sitemap_history is the sequence of the
\* sitemap URLs fetcher.get was called on, in call order, failed fetches
\* included, each URL once, and as a set it is the visited set after every
\* iteration of the loop.
C30_HistoryIsFetches ==
    cfg.processor = "crawler" =>
        /\ result.sitemap_history = SitemapFetches
        /\ NoDup(result.sitemap_history)
        /\ Range(result.sitemap_history) = visited

\* the crawler's history after a failed fetch and a successful one
C30_Witness ==
    /\ cfg.processor = "crawler" /\ pc = "collect"
    /\ result.sitemap_history = <<U1, U2>>
    /\ ~AnswerOk(U1) /\ AnswerOk(U2)
    /\ visited = {U1, U2}

====
